---- MODULE Spec2Model ----
(***************************************************************************)
(* A model of package bbs (src/bbs.go): the process-wide driver registry   *)
(* (Register / Open), the DB facade bound to one Connector, its read       *)
(* operations with their error policy, the capability-gated board-record   *)
(* write, and GetUserArticleRecordFile with its cache short-circuit and    *)
(* fallback scan over every board's article index.                         *)
(*                                                                         *)
(* Go values are modelled as follows.  An `error` is its message string,   *)
(* Nil for the nil error.  A slice is a sequence; a nil slice and an empty *)
(* slice are both << >> (both have len 0).  A *DB is an index into dbs,    *)
(* 0 for the nil pointer.  A run-time panic (a failed single-value type    *)
(* assertion) is recorded as panic = TRUE in the call's outcome.           *)
(***************************************************************************)
EXTENDS Integers, Sequences, FiniteSets, TLC

VARIABLES
    drivers,    \* the registry: driver name -> Connector instance, or NoDriver
    dbs,        \* the facades returned so far by Open, each [connector |-> c]
    brd,        \* what the driver yields for the board-record file (.BRD)
    dir,        \* board id -> what the driver yields for that board's article index
    last        \* the outcome of the last call

vars == <<drivers, dbs, brd, dir, last>>

----------------------------------------------------------------------------
(* Bounds *)

MaxBoards   == 2    \* board records in the board-record file
MaxArticles == 2    \* article records in all the article indexes together
MaxDBs      == 2    \* facades opened in one run

----------------------------------------------------------------------------
(* Universe of inputs *)

Nil      == "<nil>"
NoDriver == "<none>"

Names      == {"pttbbs", "formosa"}
Connectors == {"plain", "full"}
DSNs       == {"file:///home/bbs"}
Users      == {"U", "V"}
BoardIDs   == {"A", "ALLPOST", "B"}
\* The treasure folders that are read: (board id, treasure id).
Treasures == { << "A", <<"D1", "D2">> >> }
InvalidBoardID == ""

\* Messages of the errors a driver can hand back.
ErrNotExist == "open .DIR: no such file or directory"
ErrFormat   == "unexpected EOF"
ErrPath     == "bbs home is not set"
ErrOpen     == "invalid data source name"

Articles ==
    { [filename |-> "M.1.A", title |-> "hello", owner |-> "U"],
      [filename |-> "M.2.A", title |-> "re: hello", owner |-> "V"] }

SeqsUpTo(S, n) == UNION { [1..k -> S] : k \in 0..n }

\* Sequences over S of length at most n in which no element repeats.
DistinctSeqsUpTo(S, n) ==
    { s \in SeqsUpTo(S, n) : \A i, j \in 1..Len(s) : s[i] = s[j] => i = j }

\* What a path-resolution call followed by a decode call yields: the error of
\* the path resolution, the error of the decode, the decoded records.
Outcome(perr, rerr, recs) == [perr |-> perr, rerr |-> rerr, recs |-> recs]

\* The decode of a file whose path resolved: not there, malformed, or a list.
DecodesOf(lists) ==
    { Outcome(Nil, ErrNotExist, << >>), Outcome(Nil, ErrFormat, << >>) }
    \cup { Outcome(Nil, Nil, l) : l \in lists }

OutcomesOf(lists) == { Outcome(ErrPath, Nil, << >>) } \cup DecodesOf(lists)

IndexOutcomes == DecodesOf(SeqsUpTo(Articles, MaxArticles))
BoardOutcomes == OutcomesOf(DistinctSeqsUpTo(BoardIDs, MaxBoards))

Range(s) == { s[i] : i \in 1..Len(s) }

----------------------------------------------------------------------------
(* Go library functions and result values *)

\* strings.Contains(s, substr)
Contains(s, substr) ==
    \E i \in 1..(Len(s) - Len(substr) + 1) :
        SubSeq(s, i, i + Len(substr) - 1) = substr

\* One call made on the bound Connector, as it appears in a call's trace.
Call(fn, arg) == [fn |-> fn, arg |-> arg]

\* The (records, error) pair a facade method returns, with the Connector
\* calls it made on the way.
Ret(recs, err, calls) ==
    [recs |-> recs, err |-> err, calls |-> calls, panic |-> FALSE]

\* A method that does not return: a type assertion failed and the goroutine
\* panics.
Panic(calls) ==
    [recs |-> << >>, err |-> Nil, calls |-> calls, panic |-> TRUE]

----------------------------------------------------------------------------
(* The Connector and the optional capabilities of the two driver instances *)

\* db.connector.(WriteBoardConnector): does the instance implement it?
IsWriteBoardConnector(c) == c = "full"

\* db.connector.(UserArticleConnector): does the instance implement it?
IsUserArticleConnector(c) == c = "full"

GetBoardRecordsPath == ".BRD"
GetBoardArticleRecordsPath(boardID) == "boards/" \o boardID \o "/.DIR"
GetUserArticleRecordsPath(userID) == "home/" \o userID \o "/.ARTICLES"

RECURSIVE JoinPath(_)
JoinPath(ids) ==
    IF ids = << >> THEN "" ELSE Head(ids) \o "/" \o JoinPath(Tail(ids))

GetBoardTreasureRecordsPath(boardID, treasureID) ==
    "man/boards/" \o boardID \o "/" \o JoinPath(treasureID) \o ".DIR"

----------------------------------------------------------------------------
(* The facade's read operations *)

\* ReadBoardRecords: every error is handed on.
ReadBoardRecords ==
    LET c1 == << Call("GetBoardRecordsPath", "") >>
        c2 == Append(c1, Call("ReadBoardRecordsFile", GetBoardRecordsPath))
    IN  IF brd.perr # Nil THEN Ret(<< >>, brd.perr, c1)
        ELSE IF brd.rerr # Nil THEN Ret(<< >>, brd.rerr, c2)
        ELSE Ret(brd.recs, Nil, c2)

\* IsNoSuchFile looking for the message of fs.ErrNotExist instead of the
\* message of the system call.
IsNoSuchFileByOtherMessage(err) == Contains(err, "file does not exist")

\* if strings.Contains(err.Error(), "no such file or directory")
IsNoSuchFile(err) == Contains(err, "no such file or directory")

\* ReadBoardArticleRecordsFile, given what the driver yields for the board's
\* index: a decode error that says "no such file or directory" becomes an
\* empty list; every other error is handed on.
ReadArticleIndex(boardID, out) ==
    LET c1 == << Call("GetBoardArticleRecordsPath", boardID) >>
        c2 == Append(c1, Call("ReadArticleRecordsFile",
                              GetBoardArticleRecordsPath(boardID)))
    IN  IF out.perr # Nil THEN Ret(<< >>, out.perr, c1)
        ELSE IF out.rerr # Nil
             THEN IF IsNoSuchFile(out.rerr)
                  THEN Ret(<< >>, Nil, c2)
                  ELSE Ret(<< >>, out.rerr, c2)
             ELSE Ret(out.recs, Nil, c2)

\* The driver resolves the index path of every board id but the invalid one.
ReadBoardArticleRecordsFile(boardID) ==
    ReadArticleIndex(boardID,
                     IF boardID = InvalidBoardID
                     THEN Outcome(ErrPath, Nil, << >>)
                     ELSE dir[boardID])

\* ReadBoardTreasureRecordsFile, given what the driver yields for the treasure
\* index: every error is handed on.
ReadBoardTreasureRecordsFile(boardID, treasureID, out) ==
    LET c1 == << Call("GetBoardTreasureRecordsPath", boardID) >>
        c2 == Append(c1, Call("ReadArticleRecordsFile",
                              GetBoardTreasureRecordsPath(boardID, treasureID)))
    IN  IF out.perr # Nil THEN Ret(<< >>, out.perr, c1)
        ELSE IF out.rerr # Nil THEN Ret(<< >>, out.rerr, c2)
        ELSE Ret(out.recs, Nil, c2)

----------------------------------------------------------------------------
(* GetUserArticleRecordFile *)

\* shouldSkip skipping no board.
shouldSkipNothing(boardID) == FALSE

\* shouldSkip := func(boardID string) bool
shouldSkip(boardID) == boardID = "ALLPOST"

\* The owner test comparing the owner with itself.
OwnerIsAnyone(ar, userID) == ar.owner = ar.owner

\* if ar.Owner() == userID
OwnerIs(ar, userID) == ar.owner = userID

\* userArticleRecord{"board_id": ..., "title": ..., "owner": ..., "article_id": ...}
NewUserArticleRecord(boardID, ar) ==
    [board_id |-> boardID, title |-> ar.title, owner |-> ar.owner,
     article_id |-> ar.filename]

\* for _, ar := range ars { if ar.Owner() == userID { recs = append(recs, r) } }
RECURSIVE AppendOwned(_, _, _, _, _)
AppendOwned(recs, boardID, ars, j, userID) ==
    IF j > Len(ars) THEN recs
    ELSE AppendOwned(
            IF OwnerIs(ars[j], userID)
            THEN Append(recs, NewUserArticleRecord(boardID, ars[j]))
            ELSE recs,
            boardID, ars, j + 1, userID)

\* The failing scan returning the records collected so far with the error.
ScanFailedKeepsRecords(recs, err, calls) == Ret(recs, err, calls)

\* if err != nil { return nil, err } inside the loop over the boards: the
\* records collected so far are dropped.
ScanFailed(recs, err, calls) == Ret(<< >>, err, calls)

\* for _, r := range boardRecords { ... }, from the i-th board record on.
RECURSIVE ScanBoards(_, _, _, _, _)
ScanBoards(boardRecords, i, userID, recs, calls) ==
    IF i > Len(boardRecords) THEN Ret(recs, Nil, calls)
    ELSE IF shouldSkip(boardRecords[i])
         THEN ScanBoards(boardRecords, i + 1, userID, recs, calls)
         ELSE LET ars == ReadBoardArticleRecordsFile(boardRecords[i])
              IN  IF ars.err # Nil
                  THEN ScanFailed(recs, ars.err, calls \o ars.calls)
                  ELSE ScanBoards(boardRecords, i + 1, userID,
                                  AppendOwned(recs, boardRecords[i], ars.recs,
                                              1, userID),
                                  calls \o ars.calls)

\* From boardRecords, err := db.ReadBoardRecords() to the end of the method.
Scan(userID, recs, calls) ==
    LET boardRecords == ReadBoardRecords
    IN  IF boardRecords.err # Nil
        THEN Ret(<< >>, boardRecords.err, calls \o boardRecords.calls)
        ELSE ScanBoards(boardRecords.recs, 1, userID, recs,
                        calls \o boardRecords.calls)

\* The cached list never short-circuiting the scan.
CacheNeverHits(recs) == FALSE

\* if len(recs) != 0 { return recs, nil }
CacheHit(recs) == Len(recs) # 0

\* GetUserArticleRecordFile on a facade bound to c, given what the driver
\* yields for the user's cached list (read only when c has the capability).
GetUserArticleRecordFile(c, userID, cache) ==
    IF IsUserArticleConnector(c)
    THEN LET c1 == << Call("GetUserArticleRecordsPath", userID) >>
             c2 == Append(c1, Call("ReadUserArticleRecordFile",
                                   GetUserArticleRecordsPath(userID)))
         IN  IF cache.perr # Nil THEN Ret(<< >>, cache.perr, c1)
             ELSE IF cache.rerr # Nil THEN Ret(<< >>, cache.rerr, c2)
             ELSE IF CacheHit(cache.recs) THEN Ret(cache.recs, Nil, c2)
             ELSE Scan(userID, cache.recs, c2)
    ELSE Scan(userID, << >>, << >>)

----------------------------------------------------------------------------
(* The board-record write operations *)

\* NewBoardRecord: db.connector.(WriteBoardConnector).NewBoardRecord(args)
NewBoardRecord(c, boardID, nerr) ==
    IF ~IsWriteBoardConnector(c) THEN Panic(<< >>)
    ELSE IF nerr # Nil THEN Ret(<< >>, nerr, << Call("NewBoardRecord", boardID) >>)
    ELSE Ret(<< boardID >>, Nil, << Call("NewBoardRecord", boardID) >>)

\* AddBoardRecord, given the error of the driver's AddBoardRecordFileRecord.
AddBoardRecord(c, boardID, aerr) ==
    LET c1 == << Call("GetBoardRecordsPath", "") >>
        c2 == Append(c1, Call("AddBoardRecordFileRecord", boardID))
    IN  IF brd.perr # Nil THEN Ret(<< >>, brd.perr, c1)
        ELSE IF ~IsWriteBoardConnector(c) THEN Panic(c1)
        ELSE IF aerr # Nil THEN Ret(<< >>, aerr, c2)
        ELSE Ret(<< >>, Nil, c2)

----------------------------------------------------------------------------
(* State machine *)

NoOutcome == Outcome(Nil, Nil, << >>)

\* What a driver can yield for a user's cached article list.
CachedLists ==
    { << >>,
      << [board_id |-> "ALLPOST", title |-> "hello", owner |-> "U",
          article_id |-> "M.1.A"],
         [board_id |-> "B", title |-> "old", owner |-> "U",
          article_id |-> "M.9.A"] >> }

CacheOutcomes == OutcomesOf(CachedLists)

\* What a driver can yield for a treasure index.
TreasureOutcomes == OutcomesOf(SeqsUpTo(Articles, 1))

\* The outcome of a call: the method, the connector of the facade it was
\* called on ("" for the package-level functions), its argument, what the driver yielded for the
\* file the method reads outside brd and dir, the facade returned (Open
\* only, 0 for nil), and the method's result.
Outcome_(op, db, arg, in, handle, ret) ==
    [op |-> op, db |-> db, arg |-> arg, in |-> in, handle |-> handle, ret |-> ret]

RECURSIVE NumArticles(_, _)
NumArticles(d, boards) ==
    IF boards = {} THEN 0
    ELSE LET b == CHOOSE x \in boards : TRUE
         IN  Len(d[b].recs) + NumArticles(d, boards \ {b})

\* A BBS home in which no board was created yet.
FreshHome ==
    /\ brd \in { NoOutcome, Outcome(ErrPath, Nil, << >>) }
    /\ dir = [b \in BoardIDs |-> Outcome(Nil, ErrNotExist, << >>)]

\* A BBS home with boards and articles: the boards the board-record file
\* lists have an article index in any condition, the others have none.
PopulatedHome ==
    /\ brd \in BoardOutcomes
    /\ dir \in [BoardIDs -> IndexOutcomes]
    /\ \A b \in BoardIDs \ Range(brd.recs) :
            dir[b] = Outcome(Nil, ErrNotExist, << >>)
    /\ NumArticles(dir, BoardIDs) <= MaxArticles

\* var drivers = make(map[string]Connector): nothing registered, no facade.
Init ==
    /\ drivers = [n \in Names |-> NoDriver]
    /\ dbs = << >>
    /\ FreshHome
    /\ last = Outcome_("init", "", "", NoOutcome, 0, Ret(<< >>, Nil, << >>))

\* func Register(drivername string, connector Connector)
Register(drivername, connector) ==
    /\ drivers' = [drivers EXCEPT ![drivername] = connector]
    /\ last' = Outcome_("Register", "", drivername, NoOutcome, 0,
                        Ret(<< >>, Nil, << >>))
    /\ UNCHANGED <<dbs, brd, dir>>

\* fmt.Errorf("bbs: drivername: %v not found", drivername)
ErrDriverNotFound(drivername) ==
    "bbs: drivername: " \o drivername \o " not found"

\* fmt.Errorf("bbs: drivername: %v open error: %v", drivername, err)
ErrDriverOpen(drivername, err) ==
    "bbs: drivername: " \o drivername \o " open error: " \o err

\* Open ignoring the error of the connector's Open.
OpenNeverFailed(err) == FALSE

\* if err != nil after c.Open(dataSourceName)
OpenFailed(err) == err # Nil

\* func Open(drivername string, dataSourceName string) (*DB, error), given
\* the error of the driver's own Open.
Open(drivername, dataSourceName, oerr) ==
    /\ Len(dbs) < MaxDBs
    /\ LET c == drivers[drivername]
           call == << Call("Open:" \o c, dataSourceName) >>
       IN  IF c = NoDriver
           THEN /\ oerr = Nil
                /\ last' = Outcome_("Open", "", drivername, NoOutcome, 0,
                                    Ret(<< >>, ErrDriverNotFound(drivername), << >>))
                /\ dbs' = dbs
           ELSE IF OpenFailed(oerr)
           THEN /\ last' = Outcome_("Open", "", drivername,
                                    Outcome(Nil, oerr, << >>), 0,
                                    Ret(<< >>, ErrDriverOpen(drivername, oerr), call))
                /\ dbs' = dbs
           ELSE /\ dbs' = Append(dbs, [connector |-> c])
                /\ last' = Outcome_("Open", "", drivername,
                                    Outcome(Nil, oerr, << >>), Len(dbs) + 1,
                                    Ret(<< >>, Nil, call))
    /\ UNCHANGED <<drivers, brd, dir>>

\* The Connectors some facade is bound to.  A DB has no field but its
\* connector, so a method call is determined by the connector of its receiver.
Bound == { dbs[i].connector : i \in 1..Len(dbs) }

\* db.ReadBoardRecords() on a facade bound to c
DoReadBoardRecords(c) ==
    /\ c \in Bound
    /\ last' = Outcome_("ReadBoardRecords", c, "", NoOutcome, 0, ReadBoardRecords)
    /\ UNCHANGED <<drivers, dbs, brd, dir>>

\* db.ReadBoardArticleRecordsFile(boardID)
DoReadBoardArticleRecordsFile(c, boardID) ==
    /\ c \in Bound
    /\ last' = Outcome_("ReadBoardArticleRecordsFile", c, boardID, NoOutcome, 0,
                        ReadBoardArticleRecordsFile(boardID))
    /\ UNCHANGED <<drivers, dbs, brd, dir>>

\* db.ReadBoardTreasureRecordsFile(boardID, treasureID)
DoReadBoardTreasureRecordsFile(c, boardID, treasureID, out) ==
    /\ c \in Bound
    /\ last' = Outcome_("ReadBoardTreasureRecordsFile", c, boardID, out, 0,
                        ReadBoardTreasureRecordsFile(boardID, treasureID, out))
    /\ UNCHANGED <<drivers, dbs, brd, dir>>

\* db.GetUserArticleRecordFile(userID)
DoGetUserArticleRecordFile(c, userID, cache) ==
    /\ c \in Bound
    /\ IsUserArticleConnector(c) \/ cache = NoOutcome
    /\ last' = Outcome_("GetUserArticleRecordFile", c, userID, cache, 0,
                        GetUserArticleRecordFile(c, userID, cache))
    /\ UNCHANGED <<drivers, dbs, brd, dir>>

\* db.NewBoardRecord(args)
DoNewBoardRecord(c, boardID, nerr) ==
    /\ c \in Bound
    /\ IsWriteBoardConnector(c) \/ nerr = Nil
    /\ last' = Outcome_("NewBoardRecord", c, boardID, Outcome(Nil, nerr, << >>), 0,
                        NewBoardRecord(c, boardID, nerr))
    /\ UNCHANGED <<drivers, dbs, brd, dir>>

\* db.AddBoardRecord(brd); a driver that appends the record makes the board
\* appear in the board-record file, with no article index yet.
DoAddBoardRecord(c, boardID, aerr) ==
    /\ c \in Bound
    /\ Len(brd.recs) < MaxBoards
    /\ boardID \notin Range(brd.recs)
    /\ IsWriteBoardConnector(c) \/ aerr = Nil
    /\ LET ret == AddBoardRecord(c, boardID, aerr)
       IN  /\ last' = Outcome_("AddBoardRecord", c, boardID,
                               Outcome(Nil, aerr, << >>), 0, ret)
           /\ brd' = IF ~ret.panic /\ ret.err = Nil
                     THEN [brd EXCEPT !.recs = Append(@, boardID)]
                     ELSE brd
    /\ UNCHANGED <<drivers, dbs, dir>>

Next ==
    \/ \E n \in Names, c \in Connectors : Register(n, c)
    \/ \E n \in Names, d \in DSNs, e \in {Nil, ErrOpen} : Open(n, d, e)
    \/ \E c \in Connectors : DoReadBoardRecords(c)
    \/ \E c \in Connectors, boardID \in BoardIDs \cup {InvalidBoardID} :
            DoReadBoardArticleRecordsFile(c, boardID)
    \/ \E c \in Connectors, t \in Treasures, out \in TreasureOutcomes :
            DoReadBoardTreasureRecordsFile(c, t[1], t[2], out)
    \/ \E c \in Connectors, userID \in Users, cache \in CacheOutcomes :
            DoGetUserArticleRecordFile(c, userID, cache)
    \/ \E c \in Connectors, boardID \in BoardIDs, e \in {Nil, ErrFormat} :
            DoNewBoardRecord(c, boardID, e)
    \/ \E c \in Connectors, boardID \in BoardIDs, e \in {Nil, ErrFormat} :
            DoAddBoardRecord(c, boardID, e)

\* The read operations alone.
NextRead ==
    \/ \E c \in Connectors : DoReadBoardRecords(c)
    \/ \E c \in Connectors, boardID \in BoardIDs \cup {InvalidBoardID} :
            DoReadBoardArticleRecordsFile(c, boardID)
    \/ \E c \in Connectors, t \in Treasures, out \in TreasureOutcomes :
            DoReadBoardTreasureRecordsFile(c, t[1], t[2], out)
    \/ \E c \in Connectors, userID \in Users, cache \in CacheOutcomes :
            DoGetUserArticleRecordFile(c, userID, cache)

Spec == Init /\ [][Next]_vars

\* A populated BBS home, one driver registered and one facade opened on it.
InitOpened ==
    /\ \E c \in Connectors :
        /\ drivers = [n \in Names |-> IF n = "pttbbs" THEN c ELSE NoDriver]
        /\ dbs = << [connector |-> c] >>
        /\ last = Outcome_("Open", "", "pttbbs", NoOutcome, 1,
                           Ret(<< >>, Nil, << Call("Open:" \o c, "file:///home/bbs") >>))
    /\ PopulatedHome

SpecRead == InitOpened /\ [][NextRead]_vars

----------------------------------------------------------------------------
(* Properties.  Those about the read operations are stated on the outcome  *)
(* of the last call against brd and dir, which no read operation changes,  *)
(* and are checked under SpecRead; those about the registry and the write  *)
(* operations are checked under Spec.                                      *)

IsGetUserArticle == last.op = "GetUserArticleRecordFile"

\* The cached list was read and was not empty.
CacheNonEmpty ==
    /\ IsUserArticleConnector(last.db)
    /\ last.in.perr = Nil /\ last.in.rerr = Nil /\ last.in.recs # << >>

\* The connector has no cached lists, or the cached list was read and empty.
CacheUnsupportedOrEmpty ==
    \/ ~IsUserArticleConnector(last.db)
    \/ last.in.perr = Nil /\ last.in.rerr = Nil /\ last.in.recs = << >>

\* The cached list is missing: the connector has the capability and reading
\* the list fails with a not-found error.
CacheMissing ==
    /\ IsUserArticleConnector(last.db)
    /\ last.in.perr = Nil /\ last.in.rerr = ErrNotExist

BoardsReadable == brd.perr = Nil /\ brd.rerr = Nil

\* The index of board b is there, or b has no index file.
IndexReadable(b) == dir[b].rerr = Nil \/ dir[b].rerr = ErrNotExist

AllIndexesReadable ==
    \A i \in 1..Len(brd.recs) :
        brd.recs[i] # "ALLPOST" => IndexReadable(brd.recs[i])

\* The positions (board, article) of the articles user u owns outside ALLPOST.
OwnedPositions(u) ==
    { p \in (1..Len(brd.recs)) \X (1..MaxArticles + 1) :
        /\ brd.recs[p[1]] # "ALLPOST"
        /\ p[2] <= Len(dir[brd.recs[p[1]]].recs)
        /\ dir[brd.recs[p[1]]].recs[p[2]].owner = u }

\* The place of position p among the positions P, boards first, articles next.
Rank(p, P) ==
    Cardinality({ q \in P : q[1] < p[1] \/ (q[1] = p[1] /\ q[2] <= p[2]) })

\* recs is the list of the articles of u outside ALLPOST, one record for each
\* position, in the order of the positions.
IsScanOf(recs, u) ==
    LET P == OwnedPositions(u)
    IN  /\ Len(recs) = Cardinality(P)
        /\ \A p \in P :
            LET b == brd.recs[p[1]]
                ar == dir[b].recs[p[2]]
            IN  recs[Rank(p, P)] =
                    [board_id |-> b, title |-> ar.title, owner |-> ar.owner,
                     article_id |-> ar.filename]

HasAllpostRecord(recs) == \E k \in 1..Len(recs) : recs[k].board_id = "ALLPOST"

C2_NeverAllpost ==
    (IsGetUserArticle /\ BoardsReadable /\ "ALLPOST" \in Range(brd.recs))
    => ~HasAllpostRecord(last.ret.recs)

\* C2 amended: when the board-record file lists ALLPOST, the result holds no
\* record of board ALLPOST unless it is the non-empty cached list, returned
\* as the driver gave it.
C2_NoAllpostUnlessCached ==
    (IsGetUserArticle /\ BoardsReadable /\ "ALLPOST" \in Range(brd.recs)
        /\ ~CacheNonEmpty)
    => ~HasAllpostRecord(last.ret.recs)

\* A scan over a home in which ALLPOST holds an article of the user asked for.
C2_Witness ==
    /\ IsGetUserArticle /\ BoardsReadable /\ ~CacheNonEmpty
    /\ "ALLPOST" \in Range(brd.recs)
    /\ dir["ALLPOST"].rerr = Nil
    /\ \E j \in 1..Len(dir["ALLPOST"].recs) :
            dir["ALLPOST"].recs[j].owner = last.arg
    /\ last.ret.err = Nil
    /\ last.ret.recs # << >>

BoardCalls ==
    { "GetBoardRecordsPath", "ReadBoardRecordsFile",
      "GetBoardArticleRecordsPath", "ReadArticleRecordsFile" }

\* C3: a cached list that is read and is not empty is returned as it is, with
\* no error, and neither the board records nor any article index is read.
C3_CacheIsReturnedVerbatim ==
    (IsGetUserArticle /\ CacheNonEmpty)
    => /\ ~last.ret.panic
       /\ last.ret.err = Nil
       /\ last.ret.recs = last.in.recs
       /\ \A k \in 1..Len(last.ret.calls) : last.ret.calls[k].fn \notin BoardCalls

\* A non-empty cached list returned although the boards say otherwise.
C3_Witness ==
    /\ IsGetUserArticle /\ CacheNonEmpty
    /\ BoardsReadable /\ AllIndexesReadable
    /\ ~IsScanOf(last.in.recs, last.arg)
    /\ last.ret.recs = last.in.recs

\* C4 as stated: when the cached list is missing (reading it fails with a
\* not-found error), GetUserArticleRecordFile falls back to the scan and
\* returns its result, not the error of the read.
C4_MissingCacheFallsBack ==
    (IsGetUserArticle /\ CacheMissing /\ BoardsReadable /\ AllIndexesReadable)
    => /\ last.ret.err = Nil
       /\ IsScanOf(last.ret.recs, last.arg)

IsReadIndex == last.op = "ReadBoardArticleRecordsFile"

\* C5: reading the article index of a board that has no index file (the path
\* resolves, the decode fails with a not-found error) returns an empty list
\* and no error.
C5_MissingIndexIsEmpty ==
    (IsReadIndex /\ last.arg \in BoardIDs /\ dir[last.arg].rerr = ErrNotExist)
    => /\ ~last.ret.panic
       /\ last.ret.err = Nil
       /\ last.ret.recs = << >>

\* The index of a listed board that has no index file was read.
C5_Witness ==
    /\ IsReadIndex /\ last.arg \in Range(brd.recs)
    /\ dir[last.arg].rerr = ErrNotExist
    /\ Len(last.ret.calls) = 2

IsReadTreasure == last.op = "ReadBoardTreasureRecordsFile"

\* C6 as stated: reading a treasure index whose decode fails with a not-found
\* error returns an empty list and no error, and any other decode error is
\* handed on.
C6_MissingTreasureIsEmpty ==
    (IsReadTreasure /\ last.in.perr = Nil /\ last.in.rerr # Nil)
    => IF last.in.rerr = ErrNotExist
       THEN last.ret.err = Nil /\ last.ret.recs = << >>
       ELSE last.ret.err = last.in.rerr

\* C7 as stated: AddBoardRecord on a facade whose connector has no WriteBoard
\* capability returns an error value, without a panic, and leaves the
\* board-record file as it was.
C7_AddWithoutCapabilityReturnsError ==
    (last.op = "AddBoardRecord" /\ ~IsWriteBoardConnector(last.db))
    => /\ ~last.ret.panic
       /\ last.ret.err # Nil

IsOpen == last.op = "Open"

\* C8: Open returns a facade and no error only for a registered name whose
\* connector opened; for a name that is not registered it returns the
\* not-found error and nil and calls no connector; when the connector fails
\* to open it returns an error and nil.
C8_OpenResult ==
    IsOpen =>
        /\ (last.handle # 0 /\ last.ret.err = Nil)
            => /\ drivers[last.arg] # NoDriver
               /\ last.in.rerr = Nil
               /\ last.handle = Len(dbs)
               /\ dbs[last.handle].connector = drivers[last.arg]
        /\ drivers[last.arg] = NoDriver
            => /\ last.handle = 0
               /\ Contains(last.ret.err, last.arg \o " not found")
               /\ last.ret.calls = << >>
        /\ (drivers[last.arg] # NoDriver /\ last.in.rerr # Nil)
            => /\ last.handle = 0
               /\ last.ret.err # Nil
        /\ last.handle = 0 <=> last.ret.err # Nil

\* Open failed on a connector that an earlier Open had opened.
C8_Witness ==
    /\ IsOpen /\ drivers[last.arg] # NoDriver /\ last.in.rerr # Nil
    /\ \E i \in 1..Len(dbs) : dbs[i].connector = drivers[last.arg]

\* The boards of the list before its i-th that are scanned can all be read.
ReadableBefore(i) ==
    \A k \in 1..(i - 1) : brd.recs[k] # "ALLPOST" => IndexReadable(brd.recs[k])

\* The i-th board of the list is the first whose index cannot be read.
FirstFailure(i) ==
    /\ i \in 1..Len(brd.recs)
    /\ brd.recs[i] # "ALLPOST"
    /\ ~IndexReadable(brd.recs[i])
    /\ ReadableBefore(i)

\* C9: when, during the scan, reading the index of a board fails with an
\* error other than not-found, GetUserArticleRecordFile returns that error
\* and no record, and reads no board after that one.
C9_ScanAbortsOnError ==
    \A i \in 1..MaxBoards + 1 :
        (IsGetUserArticle /\ CacheUnsupportedOrEmpty /\ BoardsReadable
            /\ FirstFailure(i))
        => /\ last.ret.err = dir[brd.recs[i]].rerr
           /\ last.ret.recs = << >>
           /\ \A k \in (i + 1)..Len(brd.recs), n \in 1..Len(last.ret.calls) :
                last.ret.calls[n].arg # brd.recs[k]
                /\ last.ret.calls[n].arg # GetBoardArticleRecordsPath(brd.recs[k])

\* The scan failed at the second board after the first gave a record.
C9_Witness ==
    /\ IsGetUserArticle /\ CacheUnsupportedOrEmpty /\ BoardsReadable
    /\ FirstFailure(2)
    /\ brd.recs[1] # "ALLPOST"
    /\ \E j \in 1..Len(dir[brd.recs[1]].recs) :
            dir[brd.recs[1]].recs[j].owner = last.arg
    /\ last.ret.err = ErrFormat

\* C10 as stated: no two facades are bound to the same Connector instance,
\* and Open never calls Open on a Connector that a facade returned earlier
\* is bound to.
C10_FacadesShareNoConnector ==
    /\ \A i, j \in 1..Len(dbs) :
            i # j => dbs[i].connector # dbs[j].connector
    /\ (IsOpen /\ last.ret.calls # << >>)
            => \A i \in 1..Len(dbs) :
                    i # last.handle => dbs[i].connector # drivers[last.arg]

====
